---- MODULE Spec2Model ----
(***************************************************************************)
(* A model of src/model/electra.py: the masking helpers                    *)
(* (mask_with_tokens, get_mask_subset_with_prob, prob_mask_like), the      *)
(* forward pass of Electra up to the discriminator labels, and the         *)
(* HiddenLayerExtractor adapter.                                           *)
(*                                                                         *)
(* Tensors of shape (B,T) are sequences of B rows, a row a sequence of T   *)
(* entries; positions are 1..T (the code's 0..T-1).  A probability is the  *)
(* numerator of a fraction over ProbDen, a power of two, so that every     *)
(* product prob * n of the code is exact in binary floating point and      *)
(* math.ceil / Tensor.ceil are the exact ceilings.  The random draws       *)
(* (torch.rand, uniform_, randint, the Gumbel sample) are choices over     *)
(* all their outcomes.                                                     *)
(*                                                                         *)
(* SpecSubset applies get_mask_subset_with_prob to eligibility arrays of   *)
(* one or two rows.  Spec and SpecScenario run Electra.forward, whose      *)
(* position pc moves through its statements: the mask, the random-token    *)
(* substitution (or its failed assertion), the mask-token substitution,    *)
(* the generator with the sample, the discriminator.  SpecExtractor runs   *)
(* HiddenLayerExtractor.forward for callers whose statements interleave.   *)
(***************************************************************************)
EXTENDS Integers, Sequences, FiniteSets, TLC

\* ------------------------------------------------------------- bounds
MaxSeqLen == 3
MaxInputLen == 2
ProbBits == 1
NumTokens == 5
ScenarioVocab == 8
MaxCallers == 2
MaxCalls == 3

ProbDen == 2 ^ ProbBits
Probs == 0 .. ProbDen
Vocab == 0 .. (NumTokens - 1)
BatchSizes == {1, 2}

\* ------------------------------------------------- program constants
pad_token_id == 0
mask_token_id == 4

\* An optional value: None, or Some(v)
None == <<>>

Some(v) == <<v>>

\* ------------------------------------------------------------ helpers
\* the input of the end-to-end scenario, [CLS, 5, 6, 7, SEP] with CLS = 2
\* and SEP = 3, under a generator of ScenarioVocab ids
ScenarioInput == << <<2, 5, 6, 7, 3>> >>

LongestRow ==
  CHOOSE n \in {MaxSeqLen, MaxInputLen, Len(ScenarioInput[1])} :
     \A m \in {MaxSeqLen, MaxInputLen, Len(ScenarioInput[1])} : n >= m

\* the permutations of 1..n, for every length of a row in this model
PermTable ==
  [n \in 1 .. LongestRow |-> {p \in [1 .. n -> 1 .. n] : \A i, j \in 1 .. n : p[i] = p[j] => i = j}]

Perms(n) == PermTable[n]

Batches(S, bs, lens) == UNION {[1 .. b -> [1 .. n -> S]] : b \in bs, n \in lens}

SeqLen(t) == Len(t[1])

\* math.ceil(prob * n) and (n * prob).ceil(), prob = p / ProbDen
CeilMul(p, n) == (p * n + ProbDen - 1) \div ProbDen

\* ~t
Inv(t) == [b \in DOMAIN t |-> [i \in DOMAIN t[b] |-> ~t[b][i]]]

mask_with_tokens(t, token_ids) ==
  [b \in DOMAIN t |-> [i \in DOMAIN t[b] |-> \E el \in token_ids : t[b][i] = el]]

\* The outcomes of prob_mask_like(t, prob): uniform_(0, 1) draws lie in
\* [0, 1), so every entry is false for prob = 0, true for prob >= 1, and
\* free otherwise.
prob_mask_like(t, p) ==
  {m \in [DOMAIN t -> [DOMAIN t[1] -> BOOLEAN]] :
     \A b \in DOMAIN t : \A i \in DOMAIN t[1] :
        /\ (p = 0 => ~m[b][i])
        /\ (p >= ProbDen => m[b][i])}

\* The outcomes of torch.randint(low, high, t.shape): ids in [low, high)
randint(low, high, t) == [DOMAIN t -> [DOMAIN t[1] -> low .. (high - 1)]]

\* The outcomes of a row of torch.rand(...): priorities in [0, 1), taken
\* pairwise distinct and represented by their ranks 1..T.
RandOutcomes(T) == Perms(T)

\* a row of rand.masked_fill(~mask, -1e9): -1e9 is below every draw; it
\* is rank 0.
masked_fill_low(rand_row, mask_row) ==
  [i \in DOMAIN rand_row |-> IF mask_row[i] THEN rand_row[i] ELSE 0]

\* The outcomes of row.topk(k): k distinct positions holding the k largest
\* values, in non-increasing order of value; ties in any order.
topk_row(row, k) ==
  {[j \in 1 .. k |-> p[j]] : p \in {q \in Perms(Len(row)) :
      \A i, j \in 1 .. Len(row) : i < j => row[q[i]] >= row[q[j]]}}

\* The outcomes of rand.masked_fill(~mask, -1e9).topk(k, dim=-1) on the
\* first b rows: the rows of rand are independent, so every combination
\* of row outcomes.
RECURSIVE topk_rows(_, _, _)
topk_rows(mask, k, b) ==
  IF b = 0 THEN {<<>>}
  ELSE {Append(t, r) : t \in topk_rows(mask, k, b - 1),
                       r \in UNION {topk_row(masked_fill_low(rand_row, mask[b]), k) :
                                      rand_row \in RandOutcomes(Len(mask[b]))}}

topk(mask, k) == topk_rows(mask, k, Len(mask))

\* mask.cumsum(dim=-1) at position j
cumsum(row, j) == Cardinality({i \in 1 .. j : row[i]})

\* get_mask_subset_with_prob(mask, prob), given the outcome of topk.
\* sampled_indices + 1 turns the code's position i-1 into i, and 0 is the
\* extra first column of new_mask that new_mask[:, 1:] drops.
SubsetFromTopk(mask, prob, top) ==
  LET seq_len == SeqLen(mask)
      max_masked == CeilMul(prob, seq_len)
      num_tokens == [b \in DOMAIN mask |-> cumsum(mask[b], seq_len)]
      mask_excess == [b \in DOMAIN mask |-> [j \in 1 .. max_masked |->
                        cumsum(mask[b], j) > CeilMul(prob, num_tokens[b])]]
      sampled_indices == [b \in DOMAIN mask |-> [j \in 1 .. max_masked |->
                        IF mask_excess[b][j] THEN 0 ELSE top[b][j]]]
      new_mask == [b \in DOMAIN mask |-> [c \in 0 .. seq_len |->
                        \E j \in 1 .. max_masked : sampled_indices[b][j] = c]]
  IN  [b \in DOMAIN mask |-> [i \in 1 .. seq_len |-> new_mask[b][i]]]

\* A changed get_mask_subset_with_prob: the subsampling is lost and every
\* eligible position is selected.
get_mask_subset_every(mask, prob) == {mask}

\* The set of results of get_mask_subset_with_prob(mask, prob) over the
\* outcomes of torch.rand and of topk's tie-breaking.
get_mask_subset_with_prob(mask, prob) ==
  {SubsetFromTopk(mask, prob, top) : top \in topk(mask, CeilMul(prob, SeqLen(mask)))}

Count(row) == Cardinality({i \in DOMAIN row : row[i]})

\* torch.nonzero(mask, as_tuple=True): the true positions in row-major
\* order; Rank is the place of (b, i) in that list, NumTrue its length.
RECURSIVE CountRows(_, _)
CountRows(mask, b) == IF b = 0 THEN 0 ELSE CountRows(mask, b - 1) + Count(mask[b])

Rank(mask, b, i) == CountRows(mask, b - 1) + cumsum(mask[b], i)

NumTrue(mask) == CountRows(mask, Len(mask))

\* t.masked_fill(mask, value)
masked_fill(t, mask, value) ==
  [b \in DOMAIN t |-> [i \in DOMAIN t[b] |-> IF mask[b][i] THEN value ELSE t[b][i]]]

\* t[torch.nonzero(mask, as_tuple=True)] = values[...] with values of t's shape
index_put(t, mask, values) ==
  [b \in DOMAIN t |-> [i \in DOMAIN t[b] |-> IF mask[b][i] THEN values[b][i] ELSE t[b][i]]]

\* t[mask_indices] = sampled, sampled one entry per true position of mask
scatter_sampled(t, mask, sampled) ==
  [b \in DOMAIN t |-> [i \in DOMAIN t[b] |->
      IF mask[b][i] THEN sampled[Rank(mask, b, i)] ELSE t[b][i]]]

\* a & b, elementwise (also mask * replace_prob on booleans)
And(a, b) == [r \in DOMAIN a |-> [i \in DOMAIN a[r] |-> a[r][i] /\ b[r][i]]]

\* A changed random_select: the drawn tokens are not filtered.
random_select_unfiltered(draw, tokens, ids) == draw

\* lines 187-188: random_token_prob &= ~mask_with_tokens(random_tokens, ids)
random_select(draw, tokens, ids) == And(draw, Inv(mask_with_tokens(tokens, ids)))

\* A changed fill_mask: every masked position is filled.
fill_mask_every(m, replace) == m

\* line 193: mask * replace_prob
fill_mask(m, replace) == And(m, replace)

\* A changed not_equal: the labels inverted, 1 for original.
not_equal_inverted(a, b) == [r \in DOMAIN a |-> [i \in DOMAIN a[r] |-> IF a[r][i] = b[r][i] THEN 1 ELSE 0]]

\* (a != b).float()
not_equal(a, b) == [r \in DOMAIN a |-> [i \in DOMAIN a[r] |-> IF a[r][i] # b[r][i] THEN 1 ELSE 0]]

\* ------------------------------------------------------------- state
VARIABLES
  s_mask,      \* get_mask_subset_with_prob: the argument mask (eligibility)
  s_prob,      \* get_mask_subset_with_prob: the argument prob
  s_out,       \* its return value, <<>> before the call
  s_pc,        \* "call" before the call, "done" after it
  \* Electra, the fields __init__ sets
  self_mask_prob,
  self_replace_prob,
  self_random_token_prob,
  self_num_tokens,              \* None or Some(the vocabulary size)
  self_mask_ignore_token_ids,   \* set([*mask_ignore_token_ids, pad_token_id])
  generator,                    \* the generator, by the size of its logits' last dim
  \* Electra.forward, its argument, its position and its locals
  input,
  pc,
  replace_prob,
  mask,
  random_token_prob,
  random_tokens,
  masked_input,
  gen_labels,
  disc_input,
  disc_labels,
  generator_calls,
  discriminator_calls,
  \* HiddenLayerExtractor, the fields __init__ sets
  self_layer,          \* the layer argument: a name, an index or another value
  self_hidden,         \* None or Some(the call whose pass the hook captured)
  hook_registered,
  hooks,               \* forward hooks registered on the target layer
  \* HiddenLayerExtractor.forward, per caller
  calls,               \* forward calls started so far
  x_pc,                \* the caller's position in forward
  x_call,              \* the number of the caller's call
  x_fired,             \* whether the hook fired during the call's pass
  x_hidden,            \* the local hidden
  x_ret                \* the value returned

svars == <<s_mask, s_prob, s_out, s_pc>>
cvars == <<self_mask_prob, self_replace_prob, self_random_token_prob, self_num_tokens,
           self_mask_ignore_token_ids, generator, input>>
fvars == <<pc, replace_prob, mask, random_token_prob, random_tokens, masked_input,
           gen_labels, disc_input, disc_labels, generator_calls, discriminator_calls>>
xvars == <<self_layer, self_hidden, hook_registered, hooks, calls,
           x_pc, x_call, x_fired, x_hidden, x_ret>>
vars == <<svars, cvars, fvars, xvars>>

\* Electra.__init__ and the batch handed to forward: no check is made on
\* num_tokens, so every combination constructs.
Construct(inputs, mask_probs, replace_probs, random_probs, nums, ignores, gens) ==
  /\ input \in inputs
  /\ self_mask_prob \in mask_probs
  /\ self_replace_prob \in replace_probs
  /\ self_random_token_prob \in random_probs
  /\ self_num_tokens \in nums
  /\ self_mask_ignore_token_ids \in {ids \cup {pad_token_id} : ids \in ignores}
  /\ generator \in gens
  /\ pc = "start"
  /\ replace_prob = <<>>
  /\ mask = <<>>
  /\ random_token_prob = <<>>
  /\ random_tokens = <<>>
  /\ masked_input = <<>>
  /\ gen_labels = <<>>
  /\ disc_input = <<>>
  /\ disc_labels = <<>>
  /\ generator_calls = 0
  /\ discriminator_calls = 0

NoSubset ==
  /\ s_mask = <<>>
  /\ s_prob = 0
  /\ s_out = <<>>
  /\ s_pc = "done"

NoElectra ==
  Construct({<<>>}, {0}, {0}, {0}, {None}, {{}}, {0})

\* ------------------------------------------------ HiddenLayerExtractor
Callers == 1 .. MaxCallers

\* The wrapped model: self.net.children() in order, and the names of
\* self.net.named_modules() (the root is "")
net_children == <<"embed", "encoder">>

net_named_modules == {"", "embed", "encoder", "encoder.0"}

StrLayer(name) == [type |-> "str", name |-> name, index |-> 0]

IntLayer(index) == [type |-> "int", name |-> "", index |-> index]

OtherLayer == [type |-> "other", name |-> "", index |-> 0]

\* _find_layer: Some(module), None, or the IndexError of children[layer]
\* (a Python list takes the indices -n .. n-1)
find_layer(layer) ==
  IF layer.type = "str"
  THEN [raised |-> "", value |-> IF layer.name \in net_named_modules
                                 THEN Some(layer.name) ELSE None]
  ELSE IF layer.type = "int"
  THEN LET n == Len(net_children)
       IN  IF layer.index >= 0 /\ layer.index < n
           THEN [raised |-> "", value |-> Some(net_children[layer.index + 1])]
           ELSE IF layer.index < 0 /\ layer.index >= -n
           THEN [raised |-> "", value |-> Some(net_children[n + layer.index + 1])]
           ELSE [raised |-> "IndexError", value |-> None]
  ELSE [raised |-> "", value |-> None]

\* __init__
ConstructExtractor(layers) ==
  /\ self_layer \in layers
  /\ self_hidden = None
  /\ hook_registered = FALSE
  /\ hooks = 0
  /\ calls = 0
  /\ x_pc = [c \in Callers |-> "idle"]
  /\ x_call = [c \in Callers |-> 0]
  /\ x_fired = [c \in Callers |-> FALSE]
  /\ x_hidden = [c \in Callers |-> None]
  /\ x_ret = [c \in Callers |-> None]

NoExtractor == ConstructExtractor({IntLayer(-1)})

\* forward as it would be without the test of hook_registered at line 103
ExtractorCall_always_register(c) ==
  /\ x_pc[c] = "idle"
  /\ calls < MaxCalls
  /\ calls' = calls + 1
  /\ x_call' = [x_call EXCEPT ![c] = calls + 1]
  /\ x_fired' = [x_fired EXCEPT ![c] = FALSE]
  /\ x_hidden' = [x_hidden EXCEPT ![c] = None]
  /\ x_ret' = [x_ret EXCEPT ![c] = None]
  /\ x_pc' = [x_pc EXCEPT ![c] =
                IF self_layer = IntLayer(-1) THEN "final" ELSE "register"]
  /\ UNCHANGED <<svars, cvars, fvars>>
  /\ UNCHANGED <<self_layer, self_hidden, hook_registered, hooks>>

\* forward, lines 100-103: the final layer needs no hook; otherwise the
\* hook is registered unless the flag says it is
ExtractorCall(c) ==
  /\ x_pc[c] = "idle"
  /\ calls < MaxCalls
  /\ calls' = calls + 1
  /\ x_call' = [x_call EXCEPT ![c] = calls + 1]
  /\ x_fired' = [x_fired EXCEPT ![c] = FALSE]
  /\ x_hidden' = [x_hidden EXCEPT ![c] = None]
  /\ x_ret' = [x_ret EXCEPT ![c] = None]
  /\ x_pc' = [x_pc EXCEPT ![c] =
                IF self_layer = IntLayer(-1) THEN "final"
                ELSE IF ~hook_registered THEN "register" ELSE "net"]
  /\ UNCHANGED <<svars, cvars, fvars>>
  /\ UNCHANGED <<self_layer, self_hidden, hook_registered, hooks>>

\* forward, line 101: return self.net(x)
ExtractorFinal(c) ==
  /\ x_pc[c] = "final"
  /\ \E raises \in BOOLEAN :
        IF raises
        THEN x_pc' = [x_pc EXCEPT ![c] = "NetError"] /\ x_ret' = x_ret
        ELSE /\ x_pc' = [x_pc EXCEPT ![c] = "returned"]
             /\ x_ret' = [x_ret EXCEPT ![c] = Some(<<"output", x_call[c]>>)]
  /\ UNCHANGED <<svars, cvars, fvars>>
  /\ UNCHANGED <<self_layer, self_hidden, hook_registered, hooks, calls,
                 x_call, x_fired, x_hidden>>

\* _register_hook, lines 93-97
ExtractorRegister(c) ==
  /\ x_pc[c] = "register"
  /\ LET found == find_layer(self_layer)
     IN  IF found.raised # ""
         THEN /\ x_pc' = [x_pc EXCEPT ![c] = found.raised]
              /\ UNCHANGED <<hooks, hook_registered>>
         ELSE IF found.value = None
         THEN /\ x_pc' = [x_pc EXCEPT ![c] = "AssertionError"]
              /\ UNCHANGED <<hooks, hook_registered>>
         ELSE /\ hooks' = hooks + 1
              /\ hook_registered' = TRUE
              /\ x_pc' = [x_pc EXCEPT ![c] = "net"]
  /\ UNCHANGED <<svars, cvars, fvars>>
  /\ UNCHANGED <<self_layer, self_hidden, calls, x_call, x_fired, x_hidden, x_ret>>

\* forward, line 106: the pass through the wrapped model.  Whether the
\* pass reaches the target layer, and whether the model raises, is the
\* model's business; when the layer is reached every registered hook runs
\* _hook (lines 90-91), which stores the layer's output of this pass.
ExtractorNet(c) ==
  /\ x_pc[c] = "net"
  /\ \E reached \in BOOLEAN, raises \in BOOLEAN :
        /\ x_fired' = [x_fired EXCEPT ![c] = reached /\ hooks > 0]
        /\ self_hidden' = IF reached /\ hooks > 0
                          THEN Some(<<"hidden", x_call[c]>>) ELSE self_hidden
        /\ x_pc' = [x_pc EXCEPT ![c] = IF raises THEN "NetError" ELSE "read"]
  /\ UNCHANGED <<svars, cvars, fvars>>
  /\ UNCHANGED <<self_layer, hook_registered, hooks, calls, x_call, x_hidden, x_ret>>

\* forward, line 107: hidden = self.hidden
ExtractorRead(c) ==
  /\ x_pc[c] = "read"
  /\ x_hidden' = [x_hidden EXCEPT ![c] = self_hidden]
  /\ x_pc' = [x_pc EXCEPT ![c] = "clear"]
  /\ UNCHANGED <<svars, cvars, fvars>>
  /\ UNCHANGED <<self_layer, self_hidden, hook_registered, hooks, calls,
                 x_call, x_fired, x_ret>>

\* forward, line 108: self.hidden = None
ExtractorClear(c) ==
  /\ x_pc[c] = "clear"
  /\ self_hidden' = None
  /\ x_pc' = [x_pc EXCEPT ![c] = "assert"]
  /\ UNCHANGED <<svars, cvars, fvars>>
  /\ UNCHANGED <<self_layer, hook_registered, hooks, calls,
                 x_call, x_fired, x_hidden, x_ret>>

\* forward, lines 109-110: the assertion and the return
ExtractorReturn(c) ==
  /\ x_pc[c] = "assert"
  /\ IF x_hidden[c] = None
     THEN x_pc' = [x_pc EXCEPT ![c] = "AssertionError"] /\ x_ret' = x_ret
     ELSE /\ x_pc' = [x_pc EXCEPT ![c] = "returned"]
          /\ x_ret' = [x_ret EXCEPT ![c] = x_hidden[c]]
  /\ UNCHANGED <<svars, cvars, fvars>>
  /\ UNCHANGED <<self_layer, self_hidden, hook_registered, hooks, calls,
                 x_call, x_fired, x_hidden>>

Ended == {"returned", "AssertionError", "IndexError", "NetError"}

\* the caller has its result or its exception and may call again
ExtractorDone(c) ==
  /\ x_pc[c] \in Ended
  /\ x_pc' = [x_pc EXCEPT ![c] = "idle"]
  /\ UNCHANGED <<svars, cvars, fvars>>
  /\ UNCHANGED <<self_layer, self_hidden, hook_registered, hooks, calls,
                 x_call, x_fired, x_hidden, x_ret>>

ExtractorForward ==
  \E c \in Callers :
     \/ ExtractorCall(c)
     \/ ExtractorFinal(c)
     \/ ExtractorRegister(c)
     \/ ExtractorNet(c)
     \/ ExtractorRead(c)
     \/ ExtractorClear(c)
     \/ ExtractorReturn(c)
     \/ ExtractorDone(c)

\* forward called while no other call is in progress on the instance
ExtractorCallAlone(c) ==
  /\ \A d \in Callers : x_pc[d] = "idle"
  /\ ExtractorCall(c)

\* the calls of one thread: each call ends before the next begins
ExtractorForwardSequential ==
  \E c \in Callers :
     \/ ExtractorCallAlone(c)
     \/ ExtractorFinal(c)
     \/ ExtractorRegister(c)
     \/ ExtractorNet(c)
     \/ ExtractorRead(c)
     \/ ExtractorClear(c)
     \/ ExtractorReturn(c)
     \/ ExtractorDone(c)

\* ------------------------------------------------------ Electra.forward
\* lines 165-179: the replace draw, the mask, the working copy
ForwardMask ==
  /\ pc = "start"
  /\ replace_prob' \in prob_mask_like(input, self_replace_prob)
  /\ mask' \in get_mask_subset_with_prob(
                 Inv(mask_with_tokens(input, self_mask_ignore_token_ids)), self_mask_prob)
  /\ masked_input' = input
  /\ pc' = "masked"
  /\ UNCHANGED <<svars, xvars, cvars, random_token_prob, random_tokens, gen_labels,
                 disc_input, disc_labels, generator_calls, discriminator_calls>>

\* A changed ForwardRandom: num_tokens is asserted before
\* random_token_prob is looked at.
ForwardRandom_assert_first ==
  /\ pc = "masked"
  /\ IF self_num_tokens = None
     THEN /\ pc' = "AssertionError"
          /\ UNCHANGED <<random_token_prob, random_tokens, masked_input>>
     ELSE IF self_random_token_prob > 0
     THEN /\ random_tokens' \in randint(0, self_num_tokens[1], input)
          /\ \E draw \in prob_mask_like(input, self_random_token_prob) :
               random_token_prob' =
                 random_select(draw, random_tokens', self_mask_ignore_token_ids)
          /\ masked_input' = index_put(masked_input, random_token_prob', random_tokens')
          /\ pc' = "randomized"
     ELSE /\ pc' = "randomized"
          /\ UNCHANGED <<random_token_prob, random_tokens, masked_input>>
  /\ UNCHANGED <<svars, xvars, cvars, replace_prob, mask, gen_labels,
                 disc_input, disc_labels, generator_calls, discriminator_calls>>

\* lines 181-190: the random-token substitution, or the failed assertion
ForwardRandom ==
  /\ pc = "masked"
  /\ IF self_random_token_prob > 0
     THEN IF self_num_tokens = None
          THEN /\ pc' = "AssertionError"
               /\ UNCHANGED <<random_token_prob, random_tokens, masked_input>>
          ELSE /\ random_tokens' \in randint(0, self_num_tokens[1], input)
               /\ \E draw \in prob_mask_like(input, self_random_token_prob) :
                    random_token_prob' =
                      random_select(draw, random_tokens', self_mask_ignore_token_ids)
               /\ masked_input' = index_put(masked_input, random_token_prob', random_tokens')
               /\ pc' = "randomized"
     ELSE /\ pc' = "randomized"
          /\ UNCHANGED <<random_token_prob, random_tokens, masked_input>>
  /\ UNCHANGED <<svars, xvars, cvars, replace_prob, mask, gen_labels,
                 disc_input, disc_labels, generator_calls, discriminator_calls>>

\* A changed ForwardFill: the mask-token substitution made first and the
\* random-token substitution put on top of it.
ForwardFill_random_last ==
  /\ pc = "randomized"
  /\ masked_input' =
       LET filled == masked_fill(input, fill_mask(mask, replace_prob), mask_token_id)
       IN  IF self_random_token_prob > 0
           THEN index_put(filled, random_token_prob, random_tokens)
           ELSE filled
  /\ gen_labels' = masked_fill(input, Inv(mask), pad_token_id)
  /\ pc' = "filled"
  /\ UNCHANGED <<svars, xvars, cvars, replace_prob, mask, random_token_prob, random_tokens,
                 disc_input, disc_labels, generator_calls, discriminator_calls>>

\* lines 193-196: the mask-token substitution and the generator labels
ForwardFill ==
  /\ pc = "randomized"
  /\ masked_input' = masked_fill(masked_input, fill_mask(mask, replace_prob), mask_token_id)
  /\ gen_labels' = masked_fill(input, Inv(mask), pad_token_id)
  /\ pc' = "filled"
  /\ UNCHANGED <<svars, xvars, cvars, replace_prob, mask, random_token_prob, random_tokens,
                 disc_input, disc_labels, generator_calls, discriminator_calls>>

\* lines 199-220: the generator's logits, the Gumbel sample at the masked
\* positions (an argmax over the logits' last dim: any id below its size),
\* the discriminator's input and labels
ForwardGenerate ==
  /\ pc = "filled"
  /\ generator_calls' = generator_calls + 1
  /\ \E sampled \in [1 .. NumTrue(mask) -> 0 .. (generator - 1)] :
        disc_input' = scatter_sampled(input, mask, sampled)
  /\ disc_labels' = not_equal(input, disc_input')
  /\ pc' = "generated"
  /\ UNCHANGED <<svars, xvars, cvars, replace_prob, mask, random_token_prob, random_tokens,
                 masked_input, gen_labels, discriminator_calls>>

\* lines 223-244: the discriminator, the losses and the metrics
ForwardDiscriminate ==
  /\ pc = "generated"
  /\ discriminator_calls' = discriminator_calls + 1
  /\ pc' = "done"
  /\ UNCHANGED <<svars, xvars, cvars, replace_prob, mask, random_token_prob, random_tokens,
                 masked_input, gen_labels, disc_input, disc_labels, generator_calls>>

Forward ==
  \/ ForwardMask
  \/ ForwardRandom
  \/ ForwardFill
  \/ ForwardGenerate
  \/ ForwardDiscriminate

\* ------------------------------------------ get_mask_subset_with_prob
InitSubset ==
  /\ s_mask \in Batches(BOOLEAN, BatchSizes, 1 .. MaxSeqLen)
  /\ s_prob \in Probs
  /\ s_out = <<>>
  /\ s_pc = "call"
  /\ NoElectra
  /\ NoExtractor

CallSubset ==
  /\ s_pc = "call"
  /\ s_out' \in get_mask_subset_with_prob(s_mask, s_prob)
  /\ s_pc' = "done"
  /\ UNCHANGED <<s_mask, s_prob, cvars, fvars, xvars>>

NextSubset == CallSubset

SpecSubset == InitSubset /\ [][NextSubset]_vars

\* ------------------------------------------------------------ Electra
Tokens == Batches(Vocab, {1}, 1 .. MaxInputLen) \cup Batches(Vocab, {2}, {1})

IgnoreLists == {{}, {2}}

Init ==
  /\ NoSubset
  /\ NoExtractor
  /\ Construct(Tokens, Probs, Probs, Probs, {None, Some(NumTokens)}, IgnoreLists, {NumTokens})

Next == Forward

Spec == Init /\ [][Next]_vars

InitScenario ==
  /\ NoSubset
  /\ NoExtractor
  /\ Construct({ScenarioInput}, {ProbDen}, {ProbDen}, {0}, {None}, {{2, 3}}, {ScenarioVocab})

SpecScenario == InitScenario /\ [][Next]_vars

\* ---------------------------------------- HiddenLayerExtractor, specified
Layers ==
  {StrLayer(n) : n \in net_named_modules \cup {"decoder"}}
    \cup {IntLayer(k) : k \in -3 .. 2} \cup {OtherLayer}

InitExtractor ==
  /\ NoSubset
  /\ NoElectra
  /\ ConstructExtractor(Layers)

NextExtractor == ExtractorForward

SpecExtractor == InitExtractor /\ [][NextExtractor]_vars

\* the same instances, called by one thread
NextExtractorSequential == ExtractorForwardSequential

SpecExtractorSequential == InitExtractor /\ [][NextExtractorSequential]_vars

\* ------------------------------------------------------------- claims
Positions(t) == {<<b, i>> : b \in DOMAIN t, i \in DOMAIN t[1]}

Special(tok) == tok \in self_mask_ignore_token_ids

AfterMask == pc \in {"masked", "randomized", "filled", "generated", "done", "AssertionError"}

AfterFill == pc \in {"filled", "generated", "done"}

AfterGenerate == pc \in {"generated", "done"}

\* C1: the mask forward builds never selects a position holding
\* pad_token_id or an id of mask_ignore_token_ids.
C1_MaskAvoidsSpecialTokens ==
  AfterMask => \A q \in Positions(input) :
                  mask[q[1]][q[2]] => ~Special(input[q[1]][q[2]])

\* C2: each row of the mask returned by get_mask_subset_with_prob has at
\* most ceil(prob * T) true positions, T the full sequence length
\* (n <= ceil(x) for an integer n is n < x + 1).
C2_RowCountAtMostCap ==
  s_pc = "done" => \A b \in DOMAIN s_out :
                      Count(s_out[b]) * ProbDen < s_prob * SeqLen(s_mask) + ProbDen

\* C2's case: a row with more eligible positions than the cap, masked up
\* to the cap, beside a row with fewer eligible positions than the cap.
C2_Witness ==
  /\ s_pc = "done"
  /\ Len(s_mask) = 2
  /\ Count(s_mask[1]) > CeilMul(s_prob, SeqLen(s_mask))
  /\ Count(s_out[1]) = CeilMul(s_prob, SeqLen(s_mask))
  /\ Count(s_out[1]) > 0
  /\ Count(s_mask[2]) < CeilMul(s_prob, SeqLen(s_mask))

\* C3: for [CLS, 5, 6, 7, SEP], mask_prob = replace_prob = 1 and
\* random_token_prob = 0, exactly the three middle positions are masked,
\* the generator input is [CLS, MASK, MASK, MASK, SEP] and the generator
\* label is [PAD, 5, 6, 7, PAD].
C3_Scenario ==
  (input = ScenarioInput /\ AfterFill) =>
     /\ mask = << <<FALSE, TRUE, TRUE, TRUE, FALSE>> >>
     /\ masked_input = << <<2, mask_token_id, mask_token_id, mask_token_id, 3>> >>
     /\ gen_labels = << <<pad_token_id, 5, 6, 7, pad_token_id>> >>

\* C4: an all-false row of the eligibility array yields an all-false row
\* of the mask returned by get_mask_subset_with_prob.
C4_EmptyRowStaysEmpty ==
  s_pc = "done" => \A b \in DOMAIN s_out :
                      Count(s_mask[b]) = 0 => Count(s_out[b]) = 0

\* C5 as stated: with random_token_prob > 0, the random-token
\* substitution leaves every position holding pad_token_id or an id of
\* mask_ignore_token_ids with its original token.
C5_SpecialPositionsKeepToken ==
  (pc = "randomized" /\ self_random_token_prob > 0) =>
     \A q \in Positions(input) :
        Special(input[q[1]][q[2]]) => masked_input[q[1]][q[2]] = input[q[1]][q[2]]

\* C5 as amended: with random_token_prob > 0, the random-token
\* substitution is restricted by the drawn token, not by the position's
\* own token: a position is substituted only when its drawn random token
\* is neither pad_token_id nor an id of mask_ignore_token_ids, it then
\* holds that drawn token, and every other position keeps its token.
C5_RandomTokenNeverSpecial ==
  (pc = "randomized" /\ self_random_token_prob > 0) =>
     \A q \in Positions(input) :
        IF random_token_prob[q[1]][q[2]]
        THEN /\ ~Special(random_tokens[q[1]][q[2]])
             /\ masked_input[q[1]][q[2]] = random_tokens[q[1]][q[2]]
        ELSE masked_input[q[1]][q[2]] = input[q[1]][q[2]]

\* C5's case: a position holding a special token has been given a random
\* token.
C5_Witness ==
  /\ pc = "randomized"
  /\ self_random_token_prob > 0
  /\ \E q \in Positions(input) :
        /\ Special(input[q[1]][q[2]])
        /\ input[q[1]][q[2]] # pad_token_id
        /\ random_token_prob[q[1]][q[2]]
        /\ masked_input[q[1]][q[2]] # input[q[1]][q[2]]

\* the working copy after the random-token substitution, from the locals
AfterRandomCopy(q) ==
  IF self_random_token_prob > 0 /\ random_token_prob[q[1]][q[2]]
  THEN random_tokens[q[1]][q[2]]
  ELSE input[q[1]][q[2]]

\* C6 as stated: where the mask is true and the replace draw is false,
\* the generator input holds the original token, whatever
\* random_token_prob is (read at the positions that hold an ordinary
\* token, the ones the mask is meant to select).
C6_KeptPositionsHoldOriginal ==
  AfterFill => \A q \in Positions(input) :
                  (mask[q[1]][q[2]] /\ ~replace_prob[q[1]][q[2]]
                     /\ ~Special(input[q[1]][q[2]])) =>
                     masked_input[q[1]][q[2]] = input[q[1]][q[2]]

\* C6 as amended: where the mask is true and the replace draw is false,
\* the generator input holds the original token unless the random-token
\* substitution selected the position, and then it holds the drawn random
\* token; with random_token_prob = 0 it always holds the original token.
C6_KeptPositionsHoldWorkingCopy ==
  AfterFill => \A q \in Positions(input) :
                  (mask[q[1]][q[2]] /\ ~replace_prob[q[1]][q[2]]) =>
                     /\ masked_input[q[1]][q[2]] = AfterRandomCopy(q)
                     /\ (self_random_token_prob = 0 =>
                            masked_input[q[1]][q[2]] = input[q[1]][q[2]])

\* C6's case: a masked, not replaced position holding an ordinary token
\* that the random-token substitution changed.
C6_Witness ==
  /\ pc = "filled"
  /\ \E q \in Positions(input) :
        /\ mask[q[1]][q[2]]
        /\ ~replace_prob[q[1]][q[2]]
        /\ ~Special(input[q[1]][q[2]])
        /\ self_random_token_prob > 0
        /\ random_token_prob[q[1]][q[2]]
        /\ masked_input[q[1]][q[2]] # input[q[1]][q[2]]

\* C7: where mask and replace draw are both true the generator input
\* holds mask_token_id, also where the random-token substitution selected
\* the position; every other position holds what the random-token
\* substitution left there.
C7_MaskTokenAppliedLast ==
  AfterFill => \A q \in Positions(input) :
                  IF mask[q[1]][q[2]] /\ replace_prob[q[1]][q[2]]
                  THEN masked_input[q[1]][q[2]] = mask_token_id
                  ELSE masked_input[q[1]][q[2]] = AfterRandomCopy(q)

\* C7's case: a position the random-token substitution selected and the
\* mask-token step then overwrote, beside a position it did not touch.
C7_Witness ==
  /\ pc = "filled"
  /\ self_random_token_prob > 0
  /\ \E q \in Positions(input) :
        /\ mask[q[1]][q[2]] /\ replace_prob[q[1]][q[2]]
        /\ random_token_prob[q[1]][q[2]]
        /\ random_tokens[q[1]][q[2]] # mask_token_id
        /\ masked_input[q[1]][q[2]] = mask_token_id
  /\ \E q \in Positions(input) :
        /\ ~mask[q[1]][q[2]]
        /\ random_token_prob[q[1]][q[2]]
        /\ masked_input[q[1]][q[2]] = random_tokens[q[1]][q[2]]

\* C8: disc_labels is 1 exactly where the discriminator's input differs
\* from the original; a masked position whose sampled token equals the
\* original is labelled 0, and so is every position that is not masked.
C8_DiscLabels ==
  AfterGenerate => \A q \in Positions(input) :
     /\ disc_labels[q[1]][q[2]] \in {0, 1}
     /\ disc_labels[q[1]][q[2]] = 1 <=> input[q[1]][q[2]] # disc_input[q[1]][q[2]]
     /\ ~mask[q[1]][q[2]] =>
           (disc_input[q[1]][q[2]] = input[q[1]][q[2]] /\ disc_labels[q[1]][q[2]] = 0)

\* C8's case: two masked positions, one whose sampled token is the
\* original (label 0), one whose sampled token differs (label 1).
C8_Witness ==
  /\ pc = "generated"
  /\ \E q \in Positions(input) :
        /\ mask[q[1]][q[2]]
        /\ disc_input[q[1]][q[2]] = input[q[1]][q[2]]
        /\ disc_labels[q[1]][q[2]] = 0
  /\ \E q \in Positions(input) :
        /\ mask[q[1]][q[2]]
        /\ disc_input[q[1]][q[2]] # input[q[1]][q[2]]
        /\ disc_labels[q[1]][q[2]] = 1

\* C9: an Electra constructed with random_token_prob > 0 and no
\* num_tokens fails every forward call at the assertion, before the
\* generator or the discriminator is invoked; the assertion fails in no
\* other configuration, so with random_token_prob = 0 a missing
\* num_tokens causes no failure.
C9_MissingNumTokens ==
  /\ (self_random_token_prob > 0 /\ self_num_tokens = None) =>
        /\ pc \in {"start", "masked", "AssertionError"}
        /\ generator_calls = 0
        /\ discriminator_calls = 0
  /\ pc = "AssertionError" => (self_random_token_prob > 0 /\ self_num_tokens = None)
  /\ pc = "done" => (generator_calls = 1 /\ discriminator_calls = 1)

\* C9's case: forward has failed at the assertion.
C9_Witness ==
  /\ pc = "AssertionError"
  /\ self_random_token_prob > 0
  /\ self_num_tokens = None
  /\ generator_calls = 0

\* the configured name is not among the wrapped model's modules
NameNotFound == self_layer.type = "str" /\ self_layer.name \notin net_named_modules

\* the configured index is out of the range of the wrapped model's children
IndexNotFound ==
  /\ self_layer.type = "int"
  /\ (self_layer.index >= Len(net_children) \/ self_layer.index < -Len(net_children))

\* a call on a layer that is not found ends in an assertion error only
FailsAtAssertion(c) == x_pc[c] \in {"idle", "register", "AssertionError"}

\* C10: HiddenLayerExtractor.forward (layer != -1) ends in an assertion
\* error, and returns nothing, when the layer's name is not among the
\* model's modules, when the layer's index is out of the range of the
\* model's children, and when the model's pass completed without the hook
\* having captured an output.
C10_ExtractionFailuresAssert ==
  \A c \in Callers :
     /\ NameNotFound => FailsAtAssertion(c)
     /\ IndexNotFound => FailsAtAssertion(c)
     /\ (x_pc[c] \in {"returned", "AssertionError"} /\ x_call[c] > 0
           /\ self_layer # IntLayer(-1) /\ ~NameNotFound /\ ~x_fired[c])
          => x_pc[c] = "AssertionError"

\* the configured layer exists in the wrapped model and is not the final one
TargetFound ==
  /\ self_layer # IntLayer(-1)
  /\ find_layer(self_layer).raised = ""
  /\ find_layer(self_layer).value # None

\* some call has gone through forward's registration step (lines 103-104)
PastRegistration ==
  /\ calls > 0
  /\ \A c \in Callers : x_pc[c] # "register"

\* C11: hook registration is lazy and persistent.  No hook is registered at
\* construction; the number of registered hooks changes only in the
\* registration step of a forward call made while none is registered, and
\* then from zero to one, so no later call registers again and none
\* removes the hook; once a call on an existing target layer is past its
\* registration step exactly one hook is registered.  With layer == -1 no
\* hook is ever registered and a returning call returns the wrapped
\* model's own output.
C11_LazyPersistentHook ==
  /\ hooks = 0 /\ ~hook_registered
  /\ [][hooks' # hooks =>
          /\ hooks = 0 /\ hooks' = 1
          /\ \E c \in Callers : x_pc[c] = "register" /\ x_pc'[c] = "net"]_vars
  /\ []((TargetFound /\ PastRegistration) => hooks = 1)
  /\ [](self_layer = IntLayer(-1) =>
          /\ hooks = 0
          /\ \A c \in Callers :
                x_pc[c] = "returned" => x_ret[c] = Some(<<"output", x_call[c]>>))

\* C11's case: a second or later call has returned on an instance whose
\* hook was registered by an earlier call.
C11_Witness ==
  /\ TargetFound
  /\ hooks = 1
  /\ \E c \in Callers : x_pc[c] = "returned" /\ x_call[c] >= 2

\* no forward call is in progress on the instance
NoCallInProgress == \A c \in Callers : x_pc[c] \in Ended \cup {"idle"}

\* while no call is in progress the hidden slot is None
HiddenClearedAtRest == NoCallInProgress => self_hidden = None

\* a call that returns a hidden state returns the one the hook captured
\* during its own pass through the wrapped model
ReturnsOwnCapture ==
  \A c \in Callers :
     (x_pc[c] = "returned" /\ self_layer # IntLayer(-1))
       => x_ret[c] = Some(<<"hidden", x_call[c]>>)

\* C12: no stale-state reuse in HiddenLayerExtractor.  Whenever no forward
\* call is in progress the hidden slot is None, and every forward call
\* that returns a value returns the output the hook captured during that
\* same call, under every sequence and interleaving of calls on the
\* instance, calls in which the wrapped model raises after the hook fired
\* included.
C12_NoStaleState ==
  /\ HiddenClearedAtRest
  /\ ReturnsOwnCapture

====
